---- MODULE Spec2Model ----
(***************************************************************************)
(* AnMpid (src/src/id/an_mpid.rs): an identity record holding a signing    *)
(* key pair, an encryption key pair and a caller supplied name, with its   *)
(* derived routing name, equality, clone and CBOR encode / decode.         *)
(*                                                                         *)
(* Fixed-size arrays ([u8; N]) are functions on 0..N-1 (Rust indexing);    *)
(* Vec<u8> values are sequences (1..n).  Option<T> is <<>> (None) or <<x>> *)
(* (Some(x)).  The encoded form is the CBOR data item handed to the cbor   *)
(* crate: a tag and the tuple of five fields.                              *)
(***************************************************************************)
EXTENDS Integers, Sequences, FiniteSets, TLC

\* Largest byte value used for the varying byte of an input array.
MaxByte == 1
\* Number of tag values other than the AnMpid tag that a received item may carry.
MaxTagDelta == 1

\* crypto::sign::PUBLICKEYBYTES / asymmetricbox::PUBLICKEYBYTES /
\* crypto::sign::SECRETKEYBYTES / asymmetricbox::SECRETKEYBYTES, as fixed by
\* the conversions of decode, and the length of NameType.
SIGN_PUBLICKEYBYTES == 32
BOX_PUBLICKEYBYTES == 32
SIGN_SECRETKEYBYTES == 64
BOX_SECRETKEYBYTES == 32
NAME_LEN == 64
\* get_name: the size of arr_combined and the offset of the second copy loop.
HALF_LEN == 64
COMBINED_LEN == HALF_LEN * 2
ASYM_OFFSET == 64
\* encode: the CBOR tag.
AN_MPID_TAG == 5483001

None == <<>>
Some(x) == <<x>>

ArrLen(a) == Cardinality(DOMAIN a)

\* [0u8; n] with byte v at index p.
Arr(n, p, v) == [i \in 0..(n - 1) |-> IF i = p THEN v ELSE 0]

\* Public keys of length n: all zero, or one non-zero byte v (odd v in the
\* last position, even v in the first).
InputArrays(n) == { Arr(n, IF v % 2 = 1 THEN n - 1 ELSE 0, v) : v \in 0..MaxByte }

SignPublicKeys == InputArrays(SIGN_PUBLICKEYBYTES)
BoxPublicKeys == InputArrays(BOX_PUBLICKEYBYTES)
\* Secret keys and names: all zero, or MaxByte in the last position.
InputPair(n) == { Arr(n, 0, 0), Arr(n, n - 1, MaxByte) }

SignSecretKeys == InputPair(SIGN_SECRETKEYBYTES)
BoxSecretKeys == InputPair(BOX_SECRETKEYBYTES)
Names == InputPair(NAME_LEN)
Tags == { AN_MPID_TAG - k : k \in 0..MaxTagDelta }

(***************************************************************************)
(* helper module (not among the sources): the conversions between byte     *)
(* vectors and fixed-size arrays.                                          *)
(***************************************************************************)
array_as_vector(arr) == [i \in 1..ArrLen(arr) |-> arr[i - 1]]

\* The first n bytes of the vector, zero filled when it is shorter.
FillArray(vector, n) == [i \in 0..(n - 1) |-> IF i < Len(vector) THEN vector[i + 1] ELSE 0]

\* decode uses the result as a bare [u8; n] (lines 183-186): the conversion
\* has no error result.  On a vector of another length it either panics
\* (None here) or yields some n-byte array (truncated / zero filled).
vector_as_u8_array(vector, n) ==
  IF Len(vector) = n THEN { Some(FillArray(vector, n)) }
  ELSE { None, Some(FillArray(vector, n)) }

vector_as_u8_32_array(vector) == vector_as_u8_array(vector, 32)

vector_as_u8_64_array(vector) == vector_as_u8_array(vector, 64)

\* NameType's own Encodable / Decodable (common module): its bytes as a
\* sub-structure of the tuple.
NameType_encode(name) == [name_bytes |-> array_as_vector(name)]

NameType_decode(item) == FillArray(item.name_bytes, NAME_LEN)

(***************************************************************************)
(* crypto::hash::sha512::hash (sodiumoxide, external): a 64-byte digest.   *)
(* Stood in for by a function that is injective on the buffers whose bytes *)
(* are all below 16, which covers every buffer built here.                 *)
(***************************************************************************)
sha512_hash(buf) ==
  [i \in 0..63 |-> (buf[2 * i] % 16) + 16 * (buf[2 * i + 1] % 16)]

(***************************************************************************)
(* impl AnMpid                                                             *)
(***************************************************************************)
new(public_keys, secret_keys, name_type) ==
  [public_keys |-> public_keys, secret_keys |-> secret_keys, name |-> name_type]

get_public_keys(self) == self.public_keys

get_secret_keys(self) == self.secret_keys

get_name(self) == self.name

\* A get_name that also copies the name into the unused part of the buffer.
arr_combined_with_name(self) ==
  LET sign_arr == self.public_keys[1]
      asym_arr == self.public_keys[2]
  IN [i \in 0..(COMBINED_LEN - 1) |->
        IF i >= ASYM_OFFSET /\ i - ASYM_OFFSET < ArrLen(asym_arr) THEN asym_arr[i - ASYM_OFFSET]
        ELSE IF i < ArrLen(sign_arr) THEN sign_arr[i]
        ELSE IF i < ArrLen(self.name) THEN self.name[i]
        ELSE 0]

\* A get_name whose second loop writes from index 0, over the first copy.
arr_combined_overlap(self) ==
  LET sign_arr == self.public_keys[1]
      asym_arr == self.public_keys[2]
  IN [i \in 0..(COMBINED_LEN - 1) |->
        IF i < ArrLen(asym_arr) THEN asym_arr[i]
        ELSE IF i < ArrLen(sign_arr) THEN sign_arr[i]
        ELSE 0]

\* impl RoutingTrait: the buffer built by the two copy loops of get_name, the
\* argument of the hash.
arr_combined(self) ==
  LET sign_arr == self.public_keys[1]
      asym_arr == self.public_keys[2]
      sign_len == ArrLen(sign_arr)
      asym_len == ArrLen(asym_arr)
  IN [i \in 0..(COMBINED_LEN - 1) |->
        IF i >= ASYM_OFFSET /\ i - ASYM_OFFSET < asym_len THEN asym_arr[i - ASYM_OFFSET]
        ELSE IF i < sign_len THEN sign_arr[i]
        ELSE 0]

routing_get_name(self) == sha512_hash(arr_combined(self))

\* A get_owner that answers with the derived name.
get_owner_derived(self) == Some(array_as_vector(routing_get_name(self)))

get_owner(self) == Some(array_as_vector(self.name))

\* A clone that takes a default name instead of the record's.
clone_default_name(self) ==
  [public_keys |-> self.public_keys, secret_keys |-> self.secret_keys,
   name |-> Arr(NAME_LEN, 0, 0)]

\* impl Clone
clone(self) ==
  LET public_keys_clone == self.public_keys
      secret_keys_clone == self.secret_keys
      name_clone == self.name
  IN [public_keys |-> public_keys_clone, secret_keys |-> secret_keys_clone,
      name |-> name_clone]

\* impl fmt::Debug: the values written, in the order of the format string.
fmt(self) ==
  << self.public_keys[1], self.public_keys[2],
     array_as_vector(self.secret_keys[1]), self.secret_keys[2], self.name >>

\* a.iter().zip(b.iter()).all(|(a,b)| a == b)
ZipAll(a, b) ==
  LET la == ArrLen(a)
      lb == ArrLen(b)
  IN \A i \in 0..((IF la < lb THEN la ELSE lb) - 1) : a[i] = b[i]

\* An equality over the two public keys only.
eq_public_keys(self, other) ==
  /\ ZipAll(self.public_keys[1], other.public_keys[1])
  /\ ZipAll(self.public_keys[2], other.public_keys[2])

\* impl PartialEq
eq(self, other) ==
  IF self.name # other.name THEN FALSE
  ELSE /\ ZipAll(self.public_keys[1], other.public_keys[1])
       /\ ZipAll(self.public_keys[2], other.public_keys[2])
       /\ ZipAll(self.secret_keys[1], other.secret_keys[1])
       /\ ZipAll(self.secret_keys[2], other.secret_keys[2])

\* An encode that writes the encryption public key before the signing one.
encode_swapped(self) ==
  [tag |-> Some(AN_MPID_TAG),
   fields |-> << array_as_vector(self.public_keys[2]),
                 array_as_vector(self.public_keys[1]),
                 array_as_vector(self.secret_keys[1]),
                 array_as_vector(self.secret_keys[2]),
                 NameType_encode(self.name) >>]

\* impl Encodable: CborTagEncode::new(5483_001, &(..five fields..))
encode(self) ==
  [tag |-> Some(AN_MPID_TAG),
   fields |-> << array_as_vector(self.public_keys[1]),
                 array_as_vector(self.public_keys[2]),
                 array_as_vector(self.secret_keys[1]),
                 array_as_vector(self.secret_keys[2]),
                 NameType_encode(self.name) >>]

Err == [status |-> "err", rec |-> None]
Panic == [status |-> "panic", rec |-> None]
Ok(r) == [status |-> "ok", rec |-> Some(r)]

\* The decode body after the tag has been read.
decode_fields(d, first, second) ==
  IF Len(d.fields) # 5 THEN { Err }
  ELSE
    { IF None \in { a, b, c, e } THEN Panic
      ELSE Ok(new(<< a[1], b[1] >>, << c[1], e[1] >>, NameType_decode(d.fields[5]))) :
        a \in vector_as_u8_32_array(d.fields[first]),
        b \in vector_as_u8_32_array(d.fields[second]),
        c \in vector_as_u8_64_array(d.fields[3]),
        e \in vector_as_u8_32_array(d.fields[4]) }

\* A decode that takes the two public keys in the other order.
decode_swapped(d) ==
  IF d.tag = None THEN { Err } ELSE decode_fields(d, 2, 1)

\* A decode that refuses any tag but the AnMpid tag.
decode_checked_tag(d) ==
  IF d.tag # Some(AN_MPID_TAG) THEN { Err } ELSE decode_fields(d, 1, 2)

\* impl Decodable: the set of results decode can have on the item d.
decode(d) ==
  IF d.tag = None THEN { Err }
  ELSE IF Len(d.fields) # 5 THEN { Err }
  ELSE
    { IF None \in { a, b, c, e } THEN Panic
      ELSE Ok(new(<< a[1], b[1] >>, << c[1], e[1] >>, NameType_decode(d.fields[5]))) :
        a \in vector_as_u8_32_array(d.fields[1]),
        b \in vector_as_u8_32_array(d.fields[2]),
        c \in vector_as_u8_64_array(d.fields[3]),
        e \in vector_as_u8_32_array(d.fields[4]) }

(***************************************************************************)
(* State: the record under test, a second record (made by new, clone or    *)
(* decode), the encoded item in flight, and the result of the last call.   *)
(***************************************************************************)
VARIABLES r1, orig, r2, wire, out

vars == << r1, orig, r2, wire, out >>

Records ==
  { new(<< sp, bp >>, << ss, bs >>, n) :
      sp \in SignPublicKeys, bp \in BoxPublicKeys,
      ss \in SignSecretKeys, bs \in BoxSecretKeys, n \in Names }

Result(op, self, arg, val) == [op |-> op, self |-> self, arg |-> arg, val |-> val]

Aborted == out.op = "decode" /\ out.val = << "panic" >>

Rec(which) == IF which = "r1" THEN r1 ELSE r2[1]

Present == { "r1" } \cup (IF r2 = None THEN {} ELSE { "r2" })

Init ==
  /\ r1 \in Records
  /\ orig = r1
  /\ r2 = None
  /\ wire = None
  /\ out = Result("new", "r1", None, None)

\* The test builds the second record while it holds only the first.
New2 ==
  /\ ~Aborted
  /\ wire = None
  /\ r2 = None
  /\ \E r \in Records : r2' = Some(r)
  /\ out' = Result("new", "r2", None, None)
  /\ UNCHANGED << r1, orig, wire >>

Clone ==
  /\ ~Aborted
  /\ wire = None
  /\ r2' = Some(clone(r1))
  /\ out' = Result("clone", "r1", None, None)
  /\ UNCHANGED << r1, orig, wire >>

Drop2 ==
  /\ ~Aborted
  /\ r2 # None
  /\ r2' = None
  /\ out' = Result("drop", "r2", None, None)
  /\ UNCHANGED << r1, orig, wire >>

Eq ==
  /\ ~Aborted
  /\ r2 # None
  /\ \E s \in Present :
       LET o == IF s = "r1" THEN "r2" ELSE "r1"
       IN out' = Result("eq", s, None, Some(eq(Rec(s), Rec(o))))
  /\ UNCHANGED << r1, orig, r2, wire >>

RoutingGetName ==
  /\ ~Aborted
  /\ \E s \in Present : out' = Result("routing_get_name", s, Some(arr_combined(Rec(s))), Some(routing_get_name(Rec(s))))
  /\ UNCHANGED << r1, orig, r2, wire >>

GetOwner ==
  /\ ~Aborted
  /\ \E s \in Present : out' = Result("get_owner", s, None, get_owner(Rec(s)))
  /\ UNCHANGED << r1, orig, r2, wire >>

GetPublicKeys ==
  /\ ~Aborted
  /\ \E s \in Present : out' = Result("get_public_keys", s, None, Some(get_public_keys(Rec(s))))
  /\ UNCHANGED << r1, orig, r2, wire >>

GetSecretKeys ==
  /\ ~Aborted
  /\ \E s \in Present : out' = Result("get_secret_keys", s, None, Some(get_secret_keys(Rec(s))))
  /\ UNCHANGED << r1, orig, r2, wire >>

GetName ==
  /\ ~Aborted
  /\ \E s \in Present : out' = Result("get_name", s, None, Some(get_name(Rec(s))))
  /\ UNCHANGED << r1, orig, r2, wire >>

Fmt ==
  /\ ~Aborted
  /\ \E s \in Present : out' = Result("fmt", s, None, Some(fmt(Rec(s))))
  /\ UNCHANGED << r1, orig, r2, wire >>

\* e.encode(&[&obj_before]) of the test: the record is encoded before any
\* other record exists.
Encode ==
  /\ ~Aborted
  /\ r2 = None
  /\ wire' = Some(encode(r1))
  /\ out' = Result("encode", "r1", None, None)
  /\ UNCHANGED << r1, orig, r2 >>

\* The item in flight, as produced by encode and not yet altered.
Pristine == wire # None /\ out.op = "encode"

ReplaceAt(s, k, x) == [i \in 1..Len(s) |-> IF i = k THEN x ELSE s[i]]

\* The sender (or the channel) puts another tag on the item.
TamperTag ==
  /\ Pristine
  /\ \E t \in Tags \ { AN_MPID_TAG } : wire' = Some([wire[1] EXCEPT !.tag = Some(t)])
  /\ out' = Result("tamper_tag", "r1", None, None)
  /\ UNCHANGED << r1, orig, r2 >>

\* One of the four key fields loses its last byte.
TamperTruncate ==
  /\ Pristine
  /\ \E k \in 1..4 :
       LET f == wire[1].fields
       IN wire' = Some([wire[1] EXCEPT !.fields = ReplaceAt(f, k, SubSeq(f[k], 1, Len(f[k]) - 1))])
  /\ out' = Result("tamper_truncate", "r1", None, None)
  /\ UNCHANGED << r1, orig, r2 >>

\* One of the four key fields gets one more byte.
TamperExtend ==
  /\ Pristine
  /\ \E k \in 1..4 :
       LET f == wire[1].fields
       IN wire' = Some([wire[1] EXCEPT !.fields = ReplaceAt(f, k, Append(f[k], MaxByte))])
  /\ out' = Result("tamper_extend", "r1", None, None)
  /\ UNCHANGED << r1, orig, r2 >>

\* The input ends before the tag / before the last field.
TamperDropTag ==
  /\ Pristine
  /\ wire' = Some([wire[1] EXCEPT !.tag = None])
  /\ out' = Result("tamper_drop_tag", "r1", None, None)
  /\ UNCHANGED << r1, orig, r2 >>

TamperDropField ==
  /\ Pristine
  /\ wire' = Some([wire[1] EXCEPT !.fields = SubSeq(wire[1].fields, 1, 4)])
  /\ out' = Result("tamper_drop_field", "r1", None, None)
  /\ UNCHANGED << r1, orig, r2 >>

\* d.decode(): consumes the item; the record decoded, if any, is the second
\* record.
Decode ==
  /\ ~Aborted
  /\ wire # None
  /\ \E res \in decode(wire[1]) :
       /\ r2' = res.rec
       /\ out' = Result("decode", "r2", wire, Some(res.status))
  /\ wire' = None
  /\ UNCHANGED << r1, orig >>

Next ==
  \/ New2
  \/ Clone
  \/ Drop2
  \/ Eq
  \/ RoutingGetName
  \/ GetOwner
  \/ GetPublicKeys
  \/ GetSecretKeys
  \/ GetName
  \/ Fmt
  \/ Encode
  \/ TamperTag
  \/ TamperTruncate
  \/ TamperExtend
  \/ TamperDropTag
  \/ TamperDropField
  \/ Decode

Spec == Init /\ [][Next]_vars

(***************************************************************************)
(* Properties                                                              *)
(***************************************************************************)
SameFields(a, b) ==
  /\ a.public_keys[1] = b.public_keys[1]
  /\ a.public_keys[2] = b.public_keys[2]
  /\ a.secret_keys[1] = b.secret_keys[1]
  /\ a.secret_keys[2] = b.secret_keys[2]
  /\ a.name = b.name

\* The lengths decode expects of the four key fields.
ExpectedLen(k) == IF k = 3 THEN SIGN_SECRETKEYBYTES ELSE 32

WellFormed(d) ==
  /\ d.tag # None
  /\ Len(d.fields) = 5
  /\ \A k \in 1..4 : Len(d.fields[k]) = ExpectedLen(k)

WrongLength(d) ==
  /\ d.tag # None
  /\ Len(d.fields) = 5
  /\ \E k \in 1..4 : Len(d.fields[k]) # ExpectedLen(k)

\* C1: decoding the item produced by encoding a record succeeds and yields a
\* record whose two public keys, two secret keys and name are byte-for-byte
\* those of the encoded record.
RoundTrip ==
  (out.op = "decode" /\ out.arg = Some(encode(r1))) =>
    /\ out.val = Some("ok")
    /\ r2 # None
    /\ SameFields(r2[1], r1)

RoundTripWitness ==
  /\ out.op = "decode"
  /\ out.arg = Some(encode(r1))
  /\ out.val = Some("ok")
  /\ r1.public_keys[1] # r1.public_keys[2]
  /\ r1.secret_keys[2] # r1.public_keys[2]

DecodeRejectsWrongLength ==
  (out.op = "decode" /\ WrongLength(out.arg[1])) =>
    /\ out.val = Some("err")
    /\ r2 = None

\* C4: the derived name of a record is the derived name of any record with
\* the same two public keys, whatever the secret keys and the name.
AddressDeterminism ==
  out.op = "routing_get_name" =>
    /\ \A ss \in SignSecretKeys, bs \in BoxSecretKeys, n \in Names :
         out.val = Some(routing_get_name(new(Rec(out.self).public_keys, << ss, bs >>, n)))
    /\ (r2 # None /\ r1.public_keys = r2[1].public_keys) =>
         /\ out.val = Some(routing_get_name(r1))
         /\ out.val = Some(routing_get_name(r2[1]))

AddressDeterminismWitness ==
  /\ out.op = "routing_get_name"
  /\ r2 # None
  /\ r1.public_keys = r2[1].public_keys
  /\ r1.secret_keys[1] # r2[1].secret_keys[1]
  /\ r1.secret_keys[2] # r2[1].secret_keys[2]
  /\ r1.name # r2[1].name

\* The signing public key immediately followed by the encryption public key.
Concatenation(self) ==
  LET sign_arr == self.public_keys[1]
      asym_arr == self.public_keys[2]
  IN [i \in 0..(ArrLen(sign_arr) + ArrLen(asym_arr) - 1) |->
        IF i < ArrLen(sign_arr) THEN sign_arr[i] ELSE asym_arr[i - ArrLen(sign_arr)]]

\* C5: the buffer handed to the hash is the bytes of the signing public key
\* immediately followed by the bytes of the encryption public key and nothing
\* else, and the derived name is the digest of that buffer.
HashInputIsConcatenation ==
  out.op = "routing_get_name" =>
    /\ out.arg = Some(Concatenation(Rec(out.self)))
    /\ out.val = Some(sha512_hash(out.arg[1]))

\* The record with byte i of public key k replaced by b.
Perturbed(self, k, i, b) ==
  [self EXCEPT !.public_keys[k] = [self.public_keys[k] EXCEPT ![i] = b]]

\* Two byte values other than x: one that occurs in the input keys and one
\* that does not.
OtherBytes(x) == { (x + 1) % (MaxByte + 1), MaxByte + 1 }

\* C6: every byte of both public keys has a position of its own in the hashed
\* buffer: changing one byte of either public key changes the buffer at
\* exactly that position, and changes the derived name.
AddressSensitivity ==
  out.op = "routing_get_name" =>
    \A k \in 1..2 : \A i \in DOMAIN Rec(out.self).public_keys[k] :
      \A b \in OtherBytes(Rec(out.self).public_keys[k][i]) :
        LET buf == arr_combined(Perturbed(Rec(out.self), k, i, b))
        IN /\ buf = [out.arg[1] EXCEPT ![(k - 1) * ASYM_OFFSET + i] = b]
           /\ sha512_hash(buf) # out.val[1]

AddressSensitivityWitness ==
  /\ out.op = "routing_get_name"
  /\ Rec(out.self).public_keys[1] # Rec(out.self).public_keys[2]
  /\ \E i \in 0..(ASYM_OFFSET - 1) : out.arg[1][i] # 0

\* C7: encode writes the tag 5483001 and then the signing public key, the
\* encryption public key, the signing secret key, the encryption secret key
\* and the name, in this order; decode gives each field, in the same order,
\* the same role.
WireLayout ==
  /\ out.op = "encode" =>
       /\ wire # None
       /\ wire[1].tag = Some(5483001)
       /\ Len(wire[1].fields) = 5
       /\ wire[1].fields[1] = array_as_vector(r1.public_keys[1])
       /\ wire[1].fields[2] = array_as_vector(r1.public_keys[2])
       /\ wire[1].fields[3] = array_as_vector(r1.secret_keys[1])
       /\ wire[1].fields[4] = array_as_vector(r1.secret_keys[2])
       /\ wire[1].fields[5] = NameType_encode(r1.name)
  /\ (out.op = "decode" /\ WellFormed(out.arg[1])) =>
       /\ r2 # None
       /\ array_as_vector(r2[1].public_keys[1]) = out.arg[1].fields[1]
       /\ array_as_vector(r2[1].public_keys[2]) = out.arg[1].fields[2]
       /\ array_as_vector(r2[1].secret_keys[1]) = out.arg[1].fields[3]
       /\ array_as_vector(r2[1].secret_keys[2]) = out.arg[1].fields[4]
       /\ NameType_encode(r2[1].name) = out.arg[1].fields[5]

WireLayoutWitness ==
  /\ out.op = "encode"
  /\ wire # None
  /\ r1.public_keys[1] # r1.public_keys[2]
  /\ r1.secret_keys[2] # r1.public_keys[1]
  /\ \E i \in DOMAIN r1.name : r1.name[i] # 0

\* C8: get_owner returns Some of the 64 bytes of the name given at
\* construction, the value the get_name accessor returns, and not the
\* derived name.
OwnerIsName ==
  out.op = "get_owner" =>
    /\ out.val # None
    /\ Len(out.val[1]) = 64
    /\ \A i \in 0..63 : out.val[1][i + 1] = get_name(Rec(out.self))[i]
    /\ out.self = "r1" => \A i \in 0..63 : out.val[1][i + 1] = orig.name[i]

OwnerIsNameWitness ==
  /\ out.op = "get_owner"
  /\ out.self = "r1"
  /\ out.val # None
  /\ orig.name # routing_get_name(r1)
  /\ \E i \in 0..63 : orig.name[i] # 0

\* C9: decode does not compare the tag it reads with 5483001: an item with
\* any tag and five well-formed fields decodes to the record it decodes to
\* with the tag 5483001.
LenientTag ==
  (out.op = "decode" /\ WellFormed(out.arg[1])) =>
    /\ out.val = Some("ok")
    /\ r2 # None
    /\ decode([out.arg[1] EXCEPT !.tag = Some(AN_MPID_TAG)]) = { Ok(r2[1]) }
    /\ out.arg[1].fields = encode(r1).fields => SameFields(r2[1], r1)

LenientTagWitness ==
  /\ out.op = "decode"
  /\ WellFormed(out.arg[1])
  /\ out.arg[1].tag # Some(AN_MPID_TAG)
  /\ out.val = Some("ok")

\* C10: no operation changes the five fields of the record from the values
\* given at construction, whether it acts on the record or on its clone, and
\* clone returns a record with the same five fields.
Immutable ==
  /\ SameFields(r1, orig)
  /\ out.op = "clone" => (r2 # None /\ SameFields(r2[1], orig))

ImmutableWitness ==
  /\ out.op = "clone"
  /\ r2 = Some(orig)
  /\ \E i \in DOMAIN orig.name : orig.name[i] # 0
  /\ orig.public_keys[1] # orig.public_keys[2]

====
